---- MODULE Spec2Model ----
(***************************************************************************)
(* Model of backend/scripts/import-futures.py: the statement importer that *)
(* splits a statement's text into sections, parses the rows of the         *)
(* "Purchase and Sale Summary" section, and writes one FUTURES_TX item per *)
(* row to the ledger table.                                                *)
(*                                                                         *)
(* Text is a sequence of one-character strings, so that str.find, slicing, *)
(* splitlines, strip and the row regex are computed character by character. *)
(***************************************************************************)
EXTENDS Integers, Sequences, FiniteSets, TLC

(* ------------------------------------------------------------------------ *)
(* Characters                                                               *)
(* ------------------------------------------------------------------------ *)

\* The printable ASCII characters in code-point order, from 32 (space) on.
\* The double quote, the backslash and the backquote are outside the model's
\* alphabet; a placeholder keeps their place in the order.
Printable ==
    <<" ", "!", "<34>", "#", "$", "%", "&", "'", "(", ")", "*", "+", ",", "-", ".", "/",
      "0", "1", "2", "3", "4", "5", "6", "7", "8", "9", ":", ";", "<", "=", ">", "?",
      "@", "A", "B", "C", "D", "E", "F", "G", "H", "I", "J", "K", "L", "M", "N", "O",
      "P", "Q", "R", "S", "T", "U", "V", "W", "X", "Y", "Z", "[", "<92>", "]", "^", "_",
      "<96>", "a", "b", "c", "d", "e", "f", "g", "h", "i", "j", "k", "l", "m", "n", "o",
      "p", "q", "r", "s", "t", "u", "v", "w", "x", "y", "z", "{", "|", "}", "~">>

\* ord(c) for the characters of the model: tab, newline and printable ASCII.
CodePoint(c) ==
    IF c = "\t" THEN 9
    ELSE IF c = "\n" THEN 10
    ELSE 31 + (CHOOSE i \in 1..Len(Printable) : Printable[i] = c)

\* \d of the row regex, over ASCII.
Digit == {"0","1","2","3","4","5","6","7","8","9"}

\* [A-Z] of the row regex.
Upper ==
    {"A", "B", "C", "D", "E", "F", "G", "H", "I", "J", "K", "L", "M",
     "N", "O", "P", "Q", "R", "S", "T", "U", "V", "W", "X", "Y", "Z"}

\* [a-z].
Lower ==
    {"a", "b", "c", "d", "e", "f", "g", "h", "i", "j", "k", "l", "m",
     "n", "o", "p", "q", "r", "s", "t", "u", "v", "w", "x", "y", "z"}

\* \w of the row regex, over ASCII.
Word == Digit \cup Upper \cup Lower \cup {"_"}

\* \s of the row regex and the characters str.strip() removes.
Space == {" ", "\t", "\n"}

\* The line boundaries str.splitlines() knows among the model's characters.
LineBreak == {"\n"}

(* ------------------------------------------------------------------------ *)
(* Python built-ins used by the script                                      *)
(* ------------------------------------------------------------------------ *)

\* Python's None.
None == <<>>

\* An optional string that is present.
Some(s) == <<s>>

\* min of a non-empty set of integers.
SetMin(S) == CHOOSE x \in S : \A y \in S : x <= y

\* str.find(sub): the 0-based offset of the first occurrence, or -1.
Find(s, sub) ==
    LET hits == {i \in 0..(Len(s) - Len(sub)) :
                    \A j \in 1..Len(sub) : s[i + j] = sub[j]}
    IN  IF hits = {} THEN -1 ELSE SetMin(hits)

\* s[a:b] for 0 <= a and 0 <= b <= len(s); empty when a >= b.
Slice(s, a, b) == IF a >= b THEN <<>> ELSE SubSeq(s, a + 1, b)

\* str.splitlines(): lines without their line breaks; no empty last line.
RECURSIVE SplitLines(_)
SplitLines(s) ==
    IF s = <<>> THEN <<>>
    ELSE LET brk == {i \in 1..Len(s) : s[i] \in LineBreak}
         IN  IF brk = {} THEN <<s>>
             ELSE LET k == SetMin(brk)
                  IN  <<SubSeq(s, 1, k - 1)>> \o SplitLines(SubSeq(s, k + 1, Len(s)))

\* The position of the first character of s from i on that is no whitespace
\* (Len(s) + 1 if there is none), and of the last one up to i (0 if none).
RECURSIVE FirstInk(_, _)
FirstInk(s, i) ==
    IF i > Len(s) \/ s[i] \notin Space THEN i ELSE FirstInk(s, i + 1)

RECURSIVE LastInk(_, _)
LastInk(s, i) ==
    IF i = 0 \/ s[i] \notin Space THEN i ELSE LastInk(s, i - 1)

\* str.strip(): leading and trailing whitespace removed.
Strip(s) == SubSeq(s, FirstInk(s, 1), LastInk(s, Len(s)))

\* int(s) for a string of decimal digits.
RECURSIVE PyInt(_)
PyInt(s) ==
    IF s = <<>> THEN 0
    ELSE 10 * PyInt(SubSeq(s, 1, Len(s) - 1)) + (CodePoint(s[Len(s)]) - 48)

\* str(n) for n >= 0.
RECURSIVE PyStr(_)
PyStr(n) ==
    IF n < 10 THEN <<Printable[17 + n]>>
    ELSE PyStr(n \div 10) \o <<Printable[17 + (n % 10)]>>

\* s[-2:].
LastTwo(s) == IF Len(s) <= 2 THEN s ELSE SubSeq(s, Len(s) - 1, Len(s))

\* A decimal number: (-1)^neg * coef / 10^exp, with no trailing zero in the
\* fraction, which is the value float() gives a short decimal literal.
RECURSIVE Normalise(_, _, _)
Normalise(neg, coef, exp) ==
    IF exp > 0 /\ coef % 10 = 0 THEN Normalise(neg, coef \div 10, exp - 1)
    ELSE [neg |-> neg, coef |-> coef, exp |-> exp]

\* float(s) for s drawn from [-0-9.]+: a value, or ValueError. float accepts an
\* optional sign, then digits with at most one point and at least one digit.
PyFloat(s) ==
    LET neg    == s # <<>> /\ s[1] = "-"
        body   == IF neg THEN Tail(s) ELSE s
        dots   == {i \in 1..Len(body) : body[i] = "."}
        digits == SelectSeq(body, LAMBDA c : c \in Digit)
        wellFormed == /\ \A i \in 1..Len(body) : body[i] \in Digit \cup {"."}
                      /\ Cardinality(dots) <= 1
                      /\ digits # <<>>
    IN  IF ~wellFormed THEN [raised |-> "ValueError"]
        ELSE [raised |-> "None",
              value  |-> Normalise(neg, PyInt(digits),
                                   IF dots = {} THEN 0
                                   ELSE Len(body) - SetMin(dots))]

(* ------------------------------------------------------------------------ *)
(* The row regex                                                            *)
(* ------------------------------------------------------------------------ *)

\* One regex element: between min and max characters of a class (max 0: no
\* upper limit), optionally opening and/or closing a capture group.
Rep(set, min, max) == [set |-> set, min |-> min, max |-> max,
                       open |-> FALSE, close |-> FALSE]

\* A literal character.
Lit(c) == Rep({c}, 1, 1)

\* \s+
Gap == Rep(Space, 1, 0)

\* The element e as the first element of a capture group.
Open(e) == [e EXCEPT !.open = TRUE]

\* The element e as the last element of a capture group.
Close(e) == [e EXCEPT !.close = TRUE]

\* The element e as a capture group of its own.
Group(e) == Open(Close(e))

\* ^(\d{4}-\d{2}-\d{2})\s+US\s+(\d+)\s+(\d+)\s+([A-Z]+)\s+(\d{4})\s+(\d+)
\*  \s+\w+\s+[\d-]+\s+([-\d.]+)\s+USD
SUMMARY_RE ==
    << Open(Rep(Digit, 4, 4)), Lit("-"), Rep(Digit, 2, 2), Lit("-"),
       Close(Rep(Digit, 2, 2)),
       Gap, Lit("U"), Lit("S"),
       Gap, Group(Rep(Digit, 1, 0)),
       Gap, Group(Rep(Digit, 1, 0)),
       Gap, Group(Rep(Upper, 1, 0)),
       Gap, Group(Rep(Digit, 4, 4)),
       Gap, Group(Rep(Digit, 1, 0)),
       Gap, Rep(Word, 1, 0),
       Gap, Rep(Digit \cup {"-"}, 1, 0),
       Gap, Group(Rep(Digit \cup {"-", "."}, 1, 0)),
       Gap, Lit("U"), Lit("S"), Lit("D") >>

\* The number of consecutive characters of s from position i on that are in set.
RECURSIVE RunLength(_, _, _)
RunLength(s, i, set) ==
    IF i > Len(s) \/ s[i] \notin set THEN 0 ELSE 1 + RunLength(s, i + 1, set)

\* re.match from element k of the pattern at position i of s. Each element
\* takes as many characters as it can (greedy). Giving characters back never
\* helps in SUMMARY_RE: every element is followed by one whose class is
\* disjoint from its own, or has a fixed length, so the greedy match is the
\* only candidate. The pattern is not anchored at its end.
RECURSIVE MatchFrom(_, _, _, _, _, _)
MatchFrom(re, s, k, i, start, groups) ==
    IF k > Len(re) THEN [matched |-> TRUE, groups |-> groups]
    ELSE LET e     == re[k]
             run   == RunLength(s, i, e.set)
             n     == IF e.max > 0 /\ run > e.max THEN e.max ELSE run
             from  == IF e.open THEN i ELSE start
         IN  IF n < e.min THEN [matched |-> FALSE, groups |-> <<>>]
             ELSE MatchFrom(re, s, k + 1, i + n, from,
                            IF e.close
                            THEN Append(groups, SubSeq(s, from, i + n - 1))
                            ELSE groups)

\* pattern.match(s): whether a prefix of s matches, and the groups captured.
ReMatch(re, s) == MatchFrom(re, s, 1, 1, 1, <<>>)

(* ------------------------------------------------------------------------ *)
(* fmt_contract_month                                                       *)
(* ------------------------------------------------------------------------ *)

MONTH_NAMES ==
    << <<"J","a","n">>, <<"F","e","b">>, <<"M","a","r">>, <<"A","p","r">>, <<"M","a","y">>, <<"J","u","n">>,
       <<"J","u","l">>, <<"A","u","g">>, <<"S","e","p">>, <<"O","c","t">>, <<"N","o","v">>, <<"D","e","c">> >>

\* f"{MONTH_NAMES[int(month)]}{str(int(year))[-2:]}", or KeyError when the
\* table has no entry for int(month).
fmt_contract_month(year, month) ==
    IF PyInt(month) \notin DOMAIN MONTH_NAMES THEN [raised |-> "KeyError"]
    ELSE [raised |-> "None",
          value  |-> MONTH_NAMES[PyInt(month)] \o LastTwo(PyStr(PyInt(year)))]

(* ------------------------------------------------------------------------ *)
(* parse_summary                                                            *)
(* ------------------------------------------------------------------------ *)

\* The record built from a matched line's groups (date, qty_long, qty_short,
\* symbol, year, month, gross_pl), or the exception the conversions raise.
\* dict(...) evaluates its arguments in order: fmt_contract_month before
\* float.
RowRecord(g) ==
    LET cm == fmt_contract_month(g[5], g[6])
        pl == PyFloat(g[7])
    IN  IF cm.raised # "None" THEN [raised |-> cm.raised]
        ELSE IF pl.raised # "None" THEN [raised |-> pl.raised]
        ELSE [raised |-> "None",
              value  |-> [tradeDate     |-> g[1],
                          ticker        |-> g[4],
                          contractMonth |-> cm.value,
                          qty           |-> PyInt(g[2]),
                          grossPL       |-> pl.value]]

\* The loop of parse_summary from line i on, with the records so far.
RECURSIVE ParseLines(_, _, _)
ParseLines(lines, i, records) ==
    IF i > Len(lines) THEN [raised |-> "None", records |-> records]
    ELSE LET m == ReMatch(SUMMARY_RE, Strip(lines[i]))
         IN  IF ~m.matched THEN ParseLines(lines, i + 1, records)
             ELSE LET r == RowRecord(m.groups)
                  IN  IF r.raised # "None"
                      THEN [raised |-> r.raised, records |-> <<>>]
                      ELSE ParseLines(lines, i + 1, Append(records, r.value))

\* parse_summary(section_text): the records, or the exception that ends it.
parse_summary(section_text) == ParseLines(SplitLines(section_text), 1, <<>>)

(* ------------------------------------------------------------------------ *)
(* split_sections                                                           *)
(* ------------------------------------------------------------------------ *)

PurchaseAndSaleSummary == <<"P","u","r","c","h","a","s","e"," ","a","n","d"," ","S","a","l","e"," ","S","u","m","m","a","r","y">>

PurchaseAndSale == <<"P","u","r","c","h","a","s","e"," ","a","n","d"," ","S","a","l","e">>

OpenPositions == <<"O","p","e","n"," ","P","o","s","i","t","i","o","n","s">>

SECTION_HEADERS ==
    << <<"M","o","n","t","h","l","y"," ","T","r","a","d","e"," ","C","o","n","f","i","r","m","a","t","i","o","n","s">>,
       <<"T","r","a","d","e"," ","C","o","n","f","i","r","m","a","t","i","o","n"," ","S","u","m","m","a","r","y">>,
       PurchaseAndSaleSummary,
       PurchaseAndSale,
       OpenPositions,
       <<"J","o","u","r","n","a","l"," ","E","n","t","r","i","e","s">> >>

\* positions: the headers found, in the order the loop inserts them, each
\* with the offset of its first occurrence.
Positions(full_text) ==
    LET all == [k \in DOMAIN SECTION_HEADERS |->
                  [name |-> SECTION_HEADERS[k],
                   start |-> Find(full_text, SECTION_HEADERS[k])]]
    IN  SelectSeq(all, LAMBDA p : p.start >= 0)

\* sorted(items, key=start): ascending by offset; equal offsets keep their
\* order in items (the sort is stable).
RECURSIVE SortedByStart(_)
SortedByStart(items) ==
    IF items = <<>> THEN <<>>
    ELSE LET least == SetMin({items[i].start : i \in DOMAIN items})
             k     == SetMin({i \in DOMAIN items : items[i].start = least})
             rest  == [i \in 1..(Len(items) - 1) |->
                          IF i < k THEN items[i] ELSE items[i + 1]]
         IN  <<items[k]>> \o SortedByStart(rest)

\* split_sections(full_text): header name -> the text from just after the
\* header to the start of the next entry of sorted_hdrs, or to the end.
split_sections(full_text) ==
    LET sorted_hdrs == SortedByStart(Positions(full_text))
        EndOf(i)    == IF i + 1 <= Len(sorted_hdrs)
                       THEN sorted_hdrs[i + 1].start
                       ELSE Len(full_text)
        IndexOf(nm) == CHOOSE i \in DOMAIN sorted_hdrs : sorted_hdrs[i].name = nm
    IN  [nm \in {sorted_hdrs[i].name : i \in DOMAIN sorted_hdrs} |->
            Slice(full_text,
                  sorted_hdrs[IndexOf(nm)].start + Len(nm),
                  EndOf(IndexOf(nm)))]

\* sections.get(name, "").
SectionGet(sections, name) ==
    IF name \in DOMAIN sections THEN sections[name] ELSE <<>>

(* ------------------------------------------------------------------------ *)
(* parse_pdf                                                                *)
(* ------------------------------------------------------------------------ *)

\* parse_pdf once the text is extracted: split, then parse the summary section.
parse_pdf(full_text) ==
    parse_summary(SectionGet(split_sections(full_text), PurchaseAndSaleSummary))

(* ------------------------------------------------------------------------ *)
(* More built-ins: ordering and number formatting                           *)
(* ------------------------------------------------------------------------ *)

\* a < b for Python strings: lexicographic by code point.
StrLess(a, b) ==
    \E k \in 1..(Len(b)) :
        /\ k <= Len(a) + 1
        /\ \A j \in 1..(k - 1) : a[j] = b[j]
        /\ \/ k = Len(a) + 1
           \/ CodePoint(a[k]) < CodePoint(b[k])

\* str.endswith(suffix).
EndsWith(s, suffix) ==
    /\ Len(s) >= Len(suffix)
    /\ SubSeq(s, Len(s) - Len(suffix) + 1, Len(s)) = suffix

\* 10^n.
RECURSIVE Pow10(_)
Pow10(n) == IF n = 0 THEN 1 ELSE 10 * Pow10(n - 1)

\* The digits of n, zero-padded on the left to width w.
RECURSIVE Padded(_, _)
Padded(n, w) == IF w = 0 THEN <<>> ELSE Padded(n \div 10, w - 1) \o PyStr(n % 10)

\* str(x) of a float given as a decimal, in the range where Python prints
\* positional notation (zero, or 1e-4 <= |x| < 1e16): "125.5", "-40.25", "7.0".
FloatStr(x) ==
    (IF x.neg THEN <<"-">> ELSE <<>>)
        \o PyStr(x.coef \div Pow10(x.exp))
        \o <<".">>
        \o (IF x.exp = 0 THEN <<"0">> ELSE Padded(x.coef % Pow10(x.exp), x.exp))

(* ------------------------------------------------------------------------ *)
(* Inputs of a run                                                          *)
(* ------------------------------------------------------------------------ *)

\* Statement rows in the format of the "Purchase and Sale Summary" table.
RowMay == <<"2","0","2","3","-","0","5","-","1","0"," ","U","S"," ","2"," ","2"," ","Z","B"," ","2","0","2","3"," ","5"," ","C","B","O","T"," ","2","0","2","3","-","0","6","-","1","6"," ","1","2","5",".","5","0"," ","U","S","D"," ","N","o","t","e","s"," ","h","e","r","e">>

RowApr == <<"2","0","2","3","-","0","4","-","0","3"," ","U","S"," ","1"," ","1"," ","C","L"," ","2","0","2","3"," ","6"," ","N","Y","M","E","X"," ","2","0","2","3","-","0","5","-","1","9"," ","-","4","0",".","2","5"," ","U","S","D">>

\* A row whose month has no entry in MONTH_NAMES.
RowBadMonth == <<"2","0","2","3","-","0","5","-","1","1"," ","U","S"," ","1"," ","1"," ","Z","B"," ","2","0","2","3"," ","1","3"," ","C","B","O","T"," ","2","0","2","3","-","0","6","-","1","6"," ","7"," ","U","S","D">>

NewLine == <<"\n">>

\* Statement texts as the text extraction returns them.
StatementMay ==
    PurchaseAndSale \o <<"\n","t","r","a","d","e","s","\n">> \o PurchaseAndSaleSummary \o NewLine
        \o RowMay \o NewLine \o OpenPositions \o <<"\n","n","o","n","e","\n">>

StatementApr ==
    PurchaseAndSale \o NewLine \o PurchaseAndSaleSummary
        \o <<"\n","D","a","t","e"," ","Q","t","y"," ","S","y","m","b","o","l","\n">> \o RowApr \o NewLine \o RowMay \o NewLine

StatementBadMonth ==
    PurchaseAndSale \o NewLine \o PurchaseAndSaleSummary \o NewLine
        \o RowApr \o NewLine \o RowBadMonth \o NewLine

\* A statement whose first "Purchase and Sale" is the start of the summary header.
StatementSummaryFirst ==
    PurchaseAndSaleSummary \o NewLine \o RowMay \o NewLine

DocTexts ==
    {StatementMay, StatementApr, StatementBadMonth, StatementSummaryFirst}

\* The most files the statement directory holds.
MaxFiles == 2

\* The name of the k-th file: "a.pdf", "b.pdf", ... or "a.txt", ...
FileName(k, ext) == <<Printable[65 + k]>> \o ext

\* What the k-th name can be in the directory: absent, a statement, or a
\* file that is no PDF.
FileChoices(k) ==
    {None}
        \cup {Some([name |-> FileName(k, <<".","p","d","f">>), text |-> t]) : t \in DocTexts}
        \cup {Some([name |-> FileName(k, <<".","t","x","t">>), text |-> <<>>])}

\* The directories of at most MaxFiles files.
Directories ==
    {{c[k][1] : k \in {j \in 1..MaxFiles : c[j] # None}} :
        c \in {f \in [1..MaxFiles -> UNION {FileChoices(k) : k \in 1..MaxFiles}] :
                  \A k \in 1..MaxFiles : f[k] \in FileChoices(k)}}

\* --user-id: omitted, given empty, or given.
UserIdArgs == {None, Some(""), Some("user-1")}

\* An item the table held before the run (written by another user earlier).
ExistingItem ==
    [userId |-> "user-0", assetId |-> <<"uuid", 0>>, txId |-> <<"uuid", 0>>,
     assetType |-> "FUTURES_TX", gsi1pk |-> "user-0",
     gsi1sk |-> <<"FUTURES_TX", <<"2","0","2","3","-","0","1","-","0","2">>, <<"uuid", 0>>>>,
     type |-> "SUMMARY", ticker |-> <<"E","S">>, contractMonth |-> <<"M","a","r","2","3">>,
     tradeDate |-> <<"2","0","2","3","-","0","1","-","0","2">>, qty |-> <<"1">>, grossPL |-> <<"1","0",".","0">>,
     notes |-> "", createdAt |-> "earlier"]

\* The table's contents when the run starts.
InitialTables == {<<>>, <<ExistingItem>>}

(* ------------------------------------------------------------------------ *)
(* State                                                                    *)
(* ------------------------------------------------------------------------ *)

VARIABLES
    args,         \* the parsed command line: user_id, dry_run
    dir,          \* the files of --pdf-dir: a set of [name, text]
    table,        \* the DynamoDB table: its items in the order they were put
    pc,           \* where main is
    user_id,      \* main's user_id
    pdfs,         \* main's pdfs: the sorted list of statement files
    idx,          \* the parse loop's position in pdfs
    all_records,  \* main's all_records
    printed,      \* the rows of the printed table
    wi,           \* the write loop's position in all_records
    written,      \* main's written
    scans,        \* the number of ddb.scan calls made
    put_calls,    \* the number of ddb.put_item calls made
    report,       \* the last line main printed about the outcome
    raised,       \* the exception that ended main, if any
    full_text,    \* parse_pdf's full_text
    sections,     \* parse_pdf's sections
    parsed,       \* what parse_summary returned or raised
    ppc,          \* where parse_pdf is
    year,         \* fmt_contract_month's year
    month,        \* fmt_contract_month's month
    contract_month, \* what fmt_contract_month returned or raised
    fpc           \* where fmt_contract_month is

mainVars == <<args, dir, table, pc, user_id, pdfs, idx, all_records, printed,
              wi, written, scans, put_calls, report, raised>>

parseVars == <<full_text, sections, parsed, ppc>>

fmtVars == <<year, month, contract_month, fpc>>

vars == <<mainVars, parseVars, fmtVars>>

\* parse_pdf and fmt_contract_month not running on their own.
ParseIdle ==
    /\ full_text = <<>>
    /\ sections = <<>>
    /\ parsed = [raised |-> "None", records |-> <<>>]
    /\ ppc = "idle"

FmtIdle ==
    /\ year = <<>>
    /\ month = <<>>
    /\ contract_month = [raised |-> "None", value |-> <<>>]
    /\ fpc = "idle"

(* ------------------------------------------------------------------------ *)
(* make_item                                                                *)
(* ------------------------------------------------------------------------ *)

\* The run's clock reading: later than any item the table already held.
Now == "now"

\* make_item(record, user_id) with the uuid4 and the clock reading it draws.
make_item(record, uid, tx_id, now) ==
    [userId |-> uid, assetId |-> tx_id, txId |-> tx_id,
     assetType |-> "FUTURES_TX", gsi1pk |-> uid,
     gsi1sk |-> <<"FUTURES_TX", record.tradeDate, tx_id>>,
     type |-> "SUMMARY", ticker |-> record.ticker,
     contractMonth |-> record.contractMonth, tradeDate |-> record.tradeDate,
     qty |-> PyStr(record.qty), grossPL |-> FloatStr(record.grossPL),
     notes |-> "", createdAt |-> now]

(* ------------------------------------------------------------------------ *)
(* main                                                                     *)
(* ------------------------------------------------------------------------ *)

\* Python's truth value of args.user_id: None and "" are false.
Truthy(opt) == opt # None /\ opt[1] # ""

\* sorted(names): ascending by name.
RECURSIVE SortedFiles(_)
SortedFiles(files) ==
    IF files = {} THEN <<>>
    ELSE LET first == CHOOSE f \in files :
                         \A g \in files : g.name = f.name \/ StrLess(f.name, g.name)
         IN  <<first>> \o SortedFiles(files \ {first})

\* r sorts before s by the key (tradeDate, ticker).
KeyLess(r, s) ==
    \/ StrLess(r.tradeDate, s.tradeDate)
    \/ r.tradeDate = s.tradeDate /\ StrLess(r.ticker, s.ticker)

\* sorted(records, key=(tradeDate, ticker)): a new list; records with equal
\* keys keep their order (the sort is stable).
RECURSIVE SortedRecords(_)
SortedRecords(records) ==
    IF records = <<>> THEN <<>>
    ELSE LET k    == SetMin({i \in DOMAIN records :
                        \A j \in DOMAIN records : ~KeyLess(records[j], records[i])})
             rest == [i \in 1..(Len(records) - 1) |->
                        IF i < k THEN records[i] ELSE records[i + 1]]
         IN  <<records[k]>> \o SortedRecords(rest)

Init ==
    /\ args \in [user_id : UserIdArgs, dry_run : BOOLEAN]
    /\ dir \in Directories
    /\ table \in InitialTables
    /\ pc = "resolve"
    /\ user_id = None
    /\ pdfs = <<>>
    /\ idx = 1
    /\ all_records = <<>>
    /\ printed = <<>>
    /\ wi = 1
    /\ written = 0
    /\ scans = 0
    /\ put_calls = 0
    /\ report = "none"
    /\ raised = "None"
    /\ ParseIdle
    /\ FmtIdle

\* user_id = args.user_id, when it is truthy: no scan.
UserIdGiven ==
    /\ pc = "resolve"
    /\ Truthy(args.user_id)
    /\ user_id' = args.user_id
    /\ pc' = "list"
    /\ UNCHANGED <<args, dir, table, pdfs, idx, all_records, printed, wi,
                   written, scans, put_calls, report>>
    /\ UNCHANGED <<raised, parseVars, fmtVars>>

\* ScanForUserId without the exit: an empty scan result goes on to the listing.
ScanForUserIdWithoutExit ==
    /\ pc = "resolve"
    /\ ~Truthy(args.user_id)
    /\ scans' = scans + 1
    /\ user_id' = IF table = <<>> THEN Some("") ELSE Some(table[1].userId)
    /\ pc' = "list"
    /\ UNCHANGED <<args, dir, table, pdfs, idx, all_records, printed, wi,
                   written, put_calls, report, raised>>
    /\ UNCHANGED <<parseVars, fmtVars>>

\* if not user_id: scan the table for one item; none is fatal (sys.exit(1)),
\* otherwise the item's userId is the owner.
ScanForUserId ==
    /\ pc = "resolve"
    /\ ~Truthy(args.user_id)
    /\ scans' = scans + 1
    /\ LET items == SubSeq(table, 1, IF Len(table) >= 1 THEN 1 ELSE 0)
       IN  IF items = <<>>
           THEN /\ report' = "ERROR: No existing items in table and --user-id not provided."
                /\ raised' = "SystemExit"
                /\ pc' = "exit1"
                /\ user_id' = args.user_id
           ELSE /\ user_id' = Some(items[1].userId)
                /\ pc' = "list"
                /\ UNCHANGED <<report, raised>>
    /\ UNCHANGED <<args, dir, table, pdfs, idx, all_records, printed, wi,
                   written, put_calls>>
    /\ UNCHANGED <<parseVars, fmtVars>>

\* ddb.scan raises: nothing catches it.
ScanFails ==
    /\ pc = "resolve"
    /\ ~Truthy(args.user_id)
    /\ scans' = scans + 1
    /\ raised' = "ScanError"
    /\ pc' = "crashed"
    /\ UNCHANGED <<args, dir, table, user_id, pdfs, idx, all_records, printed,
                   wi, written, put_calls, report>>
    /\ UNCHANGED <<parseVars, fmtVars>>

\* pdfs = sorted(f for f in os.listdir(pdf_dir) if f.endswith(".pdf"))
ListPdfs ==
    /\ pc = "list"
    /\ pdfs' = SortedFiles({f \in dir : EndsWith(f.name, <<".","p","d","f">>)})
    /\ idx' = 1
    /\ all_records' = <<>>
    /\ pc' = "parse"
    /\ UNCHANGED <<args, dir, table, user_id, printed, wi, written, scans,
                   put_calls, report>>
    /\ UNCHANGED <<raised, parseVars, fmtVars>>

\* ParsePdf with the exception caught: a statement that fails is skipped.
ParsePdfSkipsFailure ==
    /\ pc = "parse"
    /\ idx <= Len(pdfs)
    /\ LET records == parse_pdf(pdfs[idx].text)
       IN  all_records' = all_records \o
               (IF records.raised # "None" THEN <<>> ELSE records.records)
    /\ idx' = idx + 1
    /\ UNCHANGED <<args, dir, table, pc, user_id, pdfs, printed, wi, written,
                   scans, put_calls, report, raised>>
    /\ UNCHANGED <<parseVars, fmtVars>>

\* One pass of the parse loop with the text extracted: the records are
\* appended to all_records, or parse_pdf's exception ends the run.
ParsePdf ==
    /\ pc = "parse"
    /\ idx <= Len(pdfs)
    /\ LET records == parse_pdf(pdfs[idx].text)
       IN  IF records.raised # "None"
           THEN /\ raised' = records.raised
                /\ pc' = "crashed"
                /\ UNCHANGED <<idx, all_records>>
           ELSE /\ all_records' = all_records \o records.records
                /\ idx' = idx + 1
                /\ UNCHANGED <<pc, raised>>
    /\ UNCHANGED <<args, dir, table, user_id, pdfs, printed, wi, written,
                   scans, put_calls, report>>
    /\ UNCHANGED <<parseVars, fmtVars>>

\* pdfplumber fails to open the file or to extract a page's text.
ExtractFails ==
    /\ pc = "parse"
    /\ idx <= Len(pdfs)
    /\ raised' = "ExtractError"
    /\ pc' = "crashed"
    /\ UNCHANGED <<args, dir, table, user_id, pdfs, idx, all_records, printed,
                   wi, written, scans, put_calls, report>>
    /\ UNCHANGED <<parseVars, fmtVars>>

\* PrintTable sorting all_records in place (all_records.sort(...)).
PrintTableSortsInPlace ==
    /\ pc = "parse"
    /\ idx > Len(pdfs)
    /\ all_records' = SortedRecords(all_records)
    /\ printed' = SortedRecords(all_records)
    /\ pc' = "printed"
    /\ UNCHANGED <<args, dir, table, user_id, pdfs, idx, wi, written, scans,
                   put_calls, report, raised>>
    /\ UNCHANGED <<parseVars, fmtVars>>

\* After the loop: the total and the table sorted by (tradeDate, ticker).
PrintTable ==
    /\ pc = "parse"
    /\ idx > Len(pdfs)
    /\ printed' = SortedRecords(all_records)
    /\ pc' = "printed"
    /\ UNCHANGED <<args, dir, table, user_id, pdfs, idx, all_records, wi,
                   written, scans, put_calls, report>>
    /\ UNCHANGED <<raised, parseVars, fmtVars>>

\* if args.dry_run: print the notice and return.
DryRunReturn ==
    /\ pc = "printed"
    /\ args.dry_run
    /\ report' = "[dry-run] No writes made."
    /\ pc' = "done"
    /\ UNCHANGED <<args, dir, table, user_id, pdfs, idx, all_records, printed,
                   wi, written, scans, put_calls>>
    /\ UNCHANGED <<raised, parseVars, fmtVars>>

\* StartWriting without the dry-run test.
StartWritingInDryRun ==
    /\ pc = "printed"
    /\ written' = 0
    /\ wi' = 1
    /\ pc' = "write"
    /\ UNCHANGED <<args, dir, table, user_id, pdfs, idx, all_records, printed,
                   scans, put_calls, report, raised>>
    /\ UNCHANGED <<parseVars, fmtVars>>

\* written = 0, before the write loop.
StartWriting ==
    /\ pc = "printed"
    /\ ~args.dry_run
    /\ written' = 0
    /\ wi' = 1
    /\ pc' = "write"
    /\ UNCHANGED <<args, dir, table, user_id, pdfs, idx, all_records, printed,
                   scans, put_calls, report>>
    /\ UNCHANGED <<raised, parseVars, fmtVars>>

\* One pass of the write loop: put_item succeeds.
PutItem ==
    /\ pc = "write"
    /\ wi <= Len(all_records)
    /\ put_calls' = put_calls + 1
    /\ table' = Append(table, make_item(all_records[wi], user_id[1],
                                        <<"uuid", put_calls + 1>>, Now))
    /\ written' = written + 1
    /\ wi' = wi + 1
    /\ UNCHANGED <<args, dir, pc, user_id, pdfs, idx, all_records, printed,
                   scans, report>>
    /\ UNCHANGED <<raised, parseVars, fmtVars>>

\* PutItemFails with the run's earlier writes undone.
PutItemFailsRollsBack ==
    /\ pc = "write"
    /\ wi <= Len(all_records)
    /\ put_calls' = put_calls + 1
    /\ table' = SelectSeq(table, LAMBDA item : item.createdAt # Now)
    /\ raised' = "PutError"
    /\ pc' = "crashed"
    /\ UNCHANGED <<args, dir, user_id, pdfs, idx, all_records, printed, wi,
                   written, scans, report>>
    /\ UNCHANGED <<parseVars, fmtVars>>

\* PutItemFails with the exception caught: the record is skipped.
PutItemFailsSkipsRecord ==
    /\ pc = "write"
    /\ wi <= Len(all_records)
    /\ put_calls' = put_calls + 1
    /\ wi' = wi + 1
    /\ UNCHANGED <<args, dir, table, pc, user_id, pdfs, idx, all_records,
                   printed, written, scans, report, raised>>
    /\ UNCHANGED <<parseVars, fmtVars>>

\* One pass of the write loop: put_item raises, nothing catches it.
PutItemFails ==
    /\ pc = "write"
    /\ wi <= Len(all_records)
    /\ put_calls' = put_calls + 1
    /\ raised' = "PutError"
    /\ pc' = "crashed"
    /\ UNCHANGED <<args, dir, table, user_id, pdfs, idx, all_records, printed,
                   wi, written, scans, report>>
    /\ UNCHANGED <<parseVars, fmtVars>>

\* After the write loop: print the count.
ReportWritten ==
    /\ pc = "write"
    /\ wi > Len(all_records)
    /\ report' = <<"Wrote", written>>
    /\ pc' = "done"
    /\ UNCHANGED <<args, dir, table, user_id, pdfs, idx, all_records, printed,
                   wi, written, scans, put_calls>>
    /\ UNCHANGED <<raised, parseVars, fmtVars>>

Next ==
    \/ UserIdGiven
    \/ ScanForUserId
    \/ ScanFails
    \/ ListPdfs
    \/ ParsePdf
    \/ ExtractFails
    \/ PrintTable
    \/ DryRunReturn
    \/ StartWriting
    \/ PutItem
    \/ PutItemFails
    \/ ReportWritten

Spec == Init /\ [][Next]_vars

(* ------------------------------------------------------------------------ *)
(* parse_pdf on its own, over a bounded family of statement texts           *)
(* ------------------------------------------------------------------------ *)

\* Lines that do not fit the row format: the currency literal missing, a
\* quantity that is no number, a profit that is no decimal, a subtotal.
RowNoCurrency == <<"2","0","2","3","-","0","5","-","1","0"," ","U","S"," ","2"," ","2"," ","Z","B"," ","2","0","2","3"," ","5"," ","C","B","O","T"," ","2","0","2","3","-","0","6","-","1","6"," ","1","2","5",".","5","0">>

RowBadQty == <<"2","0","2","3","-","0","5","-","1","0"," ","U","S"," ","x"," ","2"," ","Z","B"," ","2","0","2","3"," ","5"," ","C","B","O","T"," ","2","0","2","3","-","0","6","-","1","6"," ","1","2","5",".","5","0"," ","U","S","D">>

RowBadProfit == <<"2","0","2","3","-","0","5","-","1","2"," ","U","S"," ","3"," ","3"," ","N","Q"," ","2","0","2","3"," ","6"," ","C","M","E"," ","2","0","2","3","-","0","6","-","1","6"," ","1",".","2",".","3"," ","U","S","D">>

RowSubtotal == <<"T","o","t","a","l"," ","8","5",".","2","5"," ","U","S","D">>

SectionLines ==
    {RowMay, RowApr, RowBadMonth, RowNoCurrency, RowBadQty, RowBadProfit,
     RowSubtotal}

\* The most lines between the summary header and what follows it.
MaxLines == 2

\* What precedes the summary header.
Prefixes ==
    {<<>>, <<"S","t","a","t","e","m","e","n","t"," ","f","o","r"," ","M","a","y","\n">>, PurchaseAndSale \o <<"\n","t","r","a","d","e","s","\n">>}

\* The summary header, on a line of its own, inside a line, or absent.
SummaryHeaders ==
    {<<>>, PurchaseAndSaleSummary \o NewLine,
     <<"3","."," ">> \o PurchaseAndSaleSummary \o <<" ","(","U","S","D",")","\n">>}

\* What follows the section's lines.
Suffixes ==
    {<<>>, OpenPositions \o <<"\n","n","o","n","e","\n">>,
     <<"J","o","u","r","n","a","l"," ","E","n","t","r","i","e","s","\n">> \o RowApr \o NewLine}

\* The lines, each ended by a line break.
RECURSIVE JoinLines(_)
JoinLines(lines) ==
    IF lines = <<>> THEN <<>>
    ELSE Head(lines) \o NewLine \o JoinLines(Tail(lines))

LineLists == UNION {[1..n -> SectionLines] : n \in 0..MaxLines}

StatementTexts ==
    {p \o h \o JoinLines(b) \o s :
        p \in Prefixes, h \in SummaryHeaders, b \in LineLists, s \in Suffixes}

InitParse ==
    /\ full_text \in StatementTexts
    /\ sections = <<>>
    /\ parsed = [raised |-> "None", records |-> <<>>]
    /\ ppc = "text"
    /\ args = [user_id |-> None, dry_run |-> TRUE]
    /\ dir = {}
    /\ table = <<>>
    /\ pc = "idle"
    /\ user_id = None
    /\ pdfs = <<>>
    /\ idx = 1
    /\ all_records = <<>>
    /\ printed = <<>>
    /\ wi = 1
    /\ written = 0
    /\ scans = 0
    /\ put_calls = 0
    /\ report = "none"
    /\ raised = "None"
    /\ FmtIdle

\* sections = split_sections(full_text)
SplitSections ==
    /\ ppc = "text"
    /\ sections' = split_sections(full_text)
    /\ ppc' = "split"
    /\ UNCHANGED <<full_text, parsed, mainVars, fmtVars>>

\* return parse_summary(sections.get("Purchase and Sale Summary", ""))
ParseSummary ==
    /\ ppc = "split"
    /\ parsed' = parse_summary(SectionGet(sections, PurchaseAndSaleSummary))
    /\ ppc' = "parsed"
    /\ UNCHANGED <<full_text, sections, mainVars, fmtVars>>

NextParse ==
    \/ SplitSections
    \/ ParseSummary

SpecParse == InitParse /\ [][NextParse]_vars

(* ------------------------------------------------------------------------ *)
(* fmt_contract_month on its own, over bounded year and month tokens        *)
(* ------------------------------------------------------------------------ *)

\* The digits the year tokens are made of.
YearDigits == {"0", "1", "2", "9"}

\* Every string of four of those digits: what \d{4} captures.
YearTokens == {<<a, b, c, d>> : a \in YearDigits, b \in YearDigits,
                                c \in YearDigits, d \in YearDigits}

\* What (\d+) captures for the month: 0..13, and 01..09.
MonthTokens ==
    {PyStr(m) : m \in 0..13} \cup {<<"0">> \o PyStr(m) : m \in 1..9}

InitFmt ==
    /\ year \in YearTokens
    /\ month \in MonthTokens
    /\ contract_month = [raised |-> "None", value |-> <<>>]
    /\ fpc = "call"
    /\ args = [user_id |-> None, dry_run |-> TRUE]
    /\ dir = {}
    /\ table = <<>>
    /\ pc = "idle"
    /\ user_id = None
    /\ pdfs = <<>>
    /\ idx = 1
    /\ all_records = <<>>
    /\ printed = <<>>
    /\ wi = 1
    /\ written = 0
    /\ scans = 0
    /\ put_calls = 0
    /\ report = "none"
    /\ raised = "None"
    /\ ParseIdle

\* contractMonth = fmt_contract_month(year, month)
FormatContractMonth ==
    /\ fpc = "call"
    /\ contract_month' = fmt_contract_month(year, month)
    /\ fpc' = "returned"
    /\ UNCHANGED <<year, month, mainVars, parseVars>>

NextFmt == FormatContractMonth

SpecFmt == InitFmt /\ [][NextFmt]_vars

(* ------------------------------------------------------------------------ *)
(* Vocabulary of the properties                                             *)
(* ------------------------------------------------------------------------ *)

\* The printable characters that are not whitespace.
NonSpace == {Printable[i] : i \in DOMAIN Printable} \ Space

\* str.split(): the whitespace-separated tokens of a line.
RECURSIVE Tokens(_)
Tokens(s) ==
    LET t == Strip(s)
    IN  IF t = <<>> THEN <<>>
        ELSE LET n == RunLength(t, 1, NonSpace)
             IN  <<SubSeq(t, 1, n)>> \o Tokens(SubSeq(t, n + 1, Len(t)))

\* A non-empty string of characters of a class.
AllIn(tok, set) == tok # <<>> /\ \A i \in DOMAIN tok : tok[i] \in set

\* YYYY-MM-DD.
IsDate(tok) ==
    /\ Len(tok) = 10
    /\ tok[5] = "-" /\ tok[8] = "-"
    /\ \A i \in {1, 2, 3, 4, 6, 7, 9, 10} : tok[i] \in Digit

\* An optionally-signed decimal: -?digits, at most one point among them.
IsDecimal(tok) ==
    LET body == IF tok # <<>> /\ tok[1] = "-" THEN Tail(tok) ELSE tok
    IN  /\ AllIn(body, Digit \cup {"."})
        /\ Cardinality({i \in DOMAIN body : body[i] = "."}) <= 1
        /\ \E i \in DOMAIN body : body[i] \in Digit

\* The row grammar as the specification words it: DATE US QTY_LONG QTY_SHORT
\* TICKER YEAR MONTH EXCHANGE EXPIRY GROSS_PL USD, then anything.
FitsRowGrammar(line) ==
    LET t == Tokens(line)
    IN  /\ Len(t) >= 11
        /\ IsDate(t[1])
        /\ t[2] = <<"U","S">>
        /\ AllIn(t[3], Digit)
        /\ AllIn(t[4], Digit)
        /\ AllIn(t[5], Upper)
        /\ AllIn(t[6], Digit) /\ Len(t[6]) = 4
        /\ AllIn(t[7], Digit) /\ Len(t[7]) <= 2
        /\ AllIn(t[8], Word)
        /\ AllIn(t[9], Digit \cup {"-"})
        /\ IsDecimal(t[10])
        /\ t[11] = <<"U","S","D">>

\* The month token of a line that fits the grammar is one of 1..12.
MonthInTable(line) == PyInt(Tokens(line)[7]) \in 1..12

\* The record a line's tokens convert to: date and ticker as they are, the
\* month's abbreviation and the last two digits of the year token, the long
\* quantity as an integer, the profit as a number.
TokenRecord(line) ==
    LET t == Tokens(line)
    IN  [tradeDate     |-> t[1],
         ticker        |-> t[5],
         contractMonth |-> MONTH_NAMES[PyInt(t[7])] \o <<t[6][3], t[6][4]>>,
         qty           |-> PyInt(t[3]),
         grossPL       |-> PyFloat(t[10]).value]

\* The offsets at which the recognized headers first occur.
FirstOccurrences(text) ==
    {Find(text, SECTION_HEADERS[k]) : k \in DOMAIN SECTION_HEADERS} \ {-1}

\* The span the specification gives the summary section: from just after the
\* header's first occurrence to the first header that first occurs later, or
\* to the end of the text.
SpecifiedSummarySpan(text) ==
    LET a     == Find(text, PurchaseAndSaleSummary)
        later == {o \in FirstOccurrences(text) : o > a}
    IN  Slice(text, a + Len(PurchaseAndSaleSummary),
              IF later = {} THEN Len(text) ELSE SetMin(later))

\* The summary section parse_pdf hands to parse_summary.
SummarySection(text) == SectionGet(split_sections(text), PurchaseAndSaleSummary)

\* The lines from the i-th on that the row regex matches, in line order.
RECURSIVE MatchedFrom(_, _)
MatchedFrom(lines, i) ==
    IF i > Len(lines) THEN <<>>
    ELSE (IF ReMatch(SUMMARY_RE, Strip(lines[i])).matched THEN <<lines[i]>> ELSE <<>>)
            \o MatchedFrom(lines, i + 1)

\* The lines of a section that the row regex matches, in line order.
MatchedLines(section) == MatchedFrom(SplitLines(section), 1)

\* A section holds a line the row regex matches whose month is outside 1..12.
HasBadMonthRow(section) ==
    \E i \in DOMAIN MatchedLines(section) :
        PyInt(ReMatch(SUMMARY_RE, Strip(MatchedLines(section)[i])).groups[6])
            \notin 1..12

\* The records of the lines from the i-th on, one per line, in line order.
RECURSIVE RowsFrom(_, _)
RowsFrom(lines, i) ==
    IF i > Len(lines) THEN <<>>
    ELSE <<RowRecord(ReMatch(SUMMARY_RE, Strip(lines[i])).groups).value>>
            \o RowsFrom(lines, i + 1)

\* The records of the matched lines of a section, one per line, in line order.
RowsOf(section) == RowsFrom(MatchedLines(section), 1)

\* The records of the first k statements of pdfs, statement by statement.
RECURSIVE Aggregate(_)
Aggregate(k) ==
    IF k = 0 THEN <<>>
    ELSE Aggregate(k - 1) \o RowsOf(SummarySection(pdfs[k].text))

\* The items this run put into the table, in the order it put them.
RunItems == SelectSeq(table, LAMBDA item : item.createdAt = Now)

\* The items the table held before the run.
EarlierItems == SelectSeq(table, LAMBDA item : item.createdAt # Now)

\* An item carries the fields of a record.
ItemHolds(item, record) ==
    /\ item.tradeDate = record.tradeDate
    /\ item.ticker = record.ticker
    /\ item.contractMonth = record.contractMonth
    /\ item.qty = PyStr(record.qty)
    /\ item.grossPL = FloatStr(record.grossPL)
    /\ item.assetType = "FUTURES_TX"
    /\ item.type = "SUMMARY"

\* The run's items are the first n records of all_records, in order.
RunItemsArePrefix(n) ==
    /\ Len(RunItems) = n
    /\ n <= Len(all_records)
    /\ \A i \in 1..n : ItemHolds(RunItems[i], all_records[i])

(* ------------------------------------------------------------------------ *)
(* Properties of parse_pdf and fmt_contract_month                           *)
(* ------------------------------------------------------------------------ *)

\* Every line of the specified summary span either fits the row grammar
\* with a month in 1..12 or is not matched by the row regex at all.
CleanSummary(text) ==
    \A line \in {SplitLines(SpecifiedSummarySpan(text))[i] :
                    i \in DOMAIN SplitLines(SpecifiedSummarySpan(text))} :
        \/ FitsRowGrammar(line) /\ MonthInTable(line)
        \/ ~ReMatch(SUMMARY_RE, Strip(line)).matched

\* The records the specified summary span should give: one per fitting line.
SpecifiedRecords(text) ==
    LET fitting == SelectSeq(SplitLines(SpecifiedSummarySpan(text)), FitsRowGrammar)
    IN  [i \in DOMAIN fitting |-> TokenRecord(fitting[i])]

\* C1: end-to-end extraction. For a text holding the "Purchase and Sale
\* Summary" header followed, before the next header or the end, by lines of
\* which n fit the row grammar with a month in 1..12, split_sections then
\* parse_summary give exactly those n records, in line order, each with the
\* converted tokens of its line; the one line RowMay gives the one record
\* (2023-05-10, ZB, May23, 2, 125.5).
C1_EndToEndExtraction ==
    ppc = "parsed"
        => /\ (Find(full_text, PurchaseAndSaleSummary) >= 0 /\ CleanSummary(full_text))
                => parsed = [raised |-> "None", records |-> SpecifiedRecords(full_text)]
           /\ full_text = PurchaseAndSaleSummary \o NewLine \o RowMay \o NewLine
                => parsed.records =
                      << [tradeDate |-> <<"2","0","2","3","-","0","5","-","1","0">>, ticker |-> <<"Z","B">>,
                          contractMonth |-> <<"M","a","y","2","3">>, qty |-> 2,
                          grossPL |-> [neg |-> FALSE, coef |-> 1255, exp |-> 1]] >>

\* C2: split_sections gives "Purchase and Sale Summary", first found at offset
\* A, the span from just after the header to offset B of "Open Positions"
\* when B > A and no other header first occurs strictly between them, and the
\* span to the end of the text when no header first occurs after A.
C2_SummarySpan ==
    ppc \in {"split", "parsed"}
        => LET a == Find(full_text, PurchaseAndSaleSummary)
               b == Find(full_text, OpenPositions)
               firsts == FirstOccurrences(full_text)
           IN  /\ (a >= 0 /\ b > a /\ ~\E o \in firsts : a < o /\ o < b)
                    => /\ PurchaseAndSaleSummary \in DOMAIN sections
                       /\ sections[PurchaseAndSaleSummary]
                            = Slice(full_text, a + Len(PurchaseAndSaleSummary), b)
               /\ (a >= 0 /\ ~\E o \in firsts : o > a)
                    => /\ PurchaseAndSaleSummary \in DOMAIN sections
                       /\ sections[PurchaseAndSaleSummary]
                            = Slice(full_text, a + Len(PurchaseAndSaleSummary),
                                    Len(full_text))

\* C8: a line that does not fit the row grammar is skipped silently:
\* parse_summary gives no record for it and raises nothing, and what it gives
\* for the other lines is what it gives with the line absent.
C8_NonMatchingLinesSkipped ==
    ppc = "parsed"
        => parsed = ParseLines(
                        SelectSeq(SplitLines(SectionGet(sections, PurchaseAndSaleSummary)),
                                  FitsRowGrammar),
                        1, <<>>)

\* C9: for every month 1..12 and every four-digit year token, also one with
\* leading zeros, fmt_contract_month gives the month's abbreviation followed
\* by the last two digits of the year: three letters, then two digits.
C9_ContractMonthEncoding ==
    (fpc = "returned" /\ PyInt(month) \in 1..12)
        => /\ contract_month.raised = "None"
           /\ contract_month.value = MONTH_NAMES[PyInt(month)] \o <<year[3], year[4]>>
           /\ Len(contract_month.value) = 5

(* ------------------------------------------------------------------------ *)
(* Properties of main                                                       *)
(* ------------------------------------------------------------------------ *)

\* A put_item is made only after the parse loop has passed every statement.
WritesFollowParsing ==
    (put_calls > 0 \/ RunItems # <<>>)
        => /\ idx = Len(pdfs) + 1
           /\ pc \in {"write", "done", "crashed"}

\* A step of the parse loop: at a statement whose summary section holds a
\* bad-month row the run ends there, with no record added and nothing
\* written; the loop passes a statement only if parse_pdf raised nothing.
ParseStep ==
    (pc = "parse" /\ idx <= Len(pdfs))
        => /\ HasBadMonthRow(SummarySection(pdfs[idx].text))
                => /\ pc' = "crashed"
                   /\ idx' = idx
                   /\ all_records' = all_records
                   /\ put_calls' = 0
                   /\ table' = table
           /\ idx' # idx
                => parse_pdf(pdfs[idx].text).raised = "None"

\* A run that has ended takes no further step.
EndedStaysEnded == pc \in {"crashed", "exit1", "done"} => UNCHANGED vars

DryRunState ==
    args.dry_run
        => /\ put_calls = 0
           /\ written = 0
           /\ RunItems = <<>>
           /\ table \in InitialTables
           /\ pc # "write"
           /\ pc = "done" => report = "[dry-run] No writes made."

\* What C4 says of each step of a dry run.
DryRunStep ==
    args.dry_run
        => /\ table' = table
           /\ put_calls' = put_calls
           /\ pc = "printed" => (pc' = "done" /\ report' = "[dry-run] No writes made.")

\* C4: a dry run never writes. With --dry-run no put_item is made at any
\* point; a run that gets to the end of parsing ends after the "no writes
\* made" notice, with the table's items as they were.
C4_DryRunNeverWrites == []DryRunState /\ [][DryRunStep]_vars

\* C4's case: a dry run that parsed records and ended with the notice.
C4_Witness ==
    /\ args.dry_run
    /\ pc = "done"
    /\ Len(all_records) >= 2
    /\ report = "[dry-run] No writes made."

\* Owner resolution, for a given reading of "--user-id is supplied".
OwnerResolution(supplied) ==
    /\ (~supplied /\ scans > 0 /\ EarlierItems = <<>>)
          => /\ pc \in {"exit1", "crashed"}
             /\ raised \in {"SystemExit", "ScanError"}
             /\ pdfs = <<>>
             /\ all_records = <<>>
             /\ put_calls = 0
             /\ RunItems = <<>>
    /\ supplied => scans = 0
    /\ (~supplied /\ EarlierItems # <<>>)
          => /\ pc \notin {"resolve", "crashed", "exit1"}
                   => user_id = Some(EarlierItems[1].userId)
             /\ \A i \in DOMAIN RunItems :
                   /\ RunItems[i].userId = EarlierItems[1].userId
                   /\ RunItems[i].gsi1pk = EarlierItems[1].userId
    /\ ~supplied => (pc \notin {"resolve"} => scans = 1)

\* C5 as claimed: --user-id counts as supplied whenever the option is given.
C5_AsClaimed == OwnerResolution(args.user_id # None)

\* C5, amended: owner resolution gates everything. When --user-id is omitted
\* or empty and the scan returns no items, the run ends with a fatal exit
\* before any statement is listed or parsed and before any put_item; when a
\* non-empty --user-id is given the table is not scanned; when it is omitted
\* or empty and the scan returns an item, that item's userId is the owner of
\* every item written.
C5_OwnerResolution == OwnerResolution(Truthy(args.user_id))

\* C5's case: an empty --user-id, the owner taken from the scanned item, and
\* an item written under it.
C5_Witness ==
    /\ args.user_id = Some("")
    /\ scans = 1
    /\ pc = "done"
    /\ RunItems # <<>>
    /\ RunItems[1].userId = "user-0"

C7_AsClaimed ==
    (pc = "crashed" /\ raised \in {"ExtractError", "PutError"}) => RunItems = <<>>

\* C7, amended: a failed text extraction ends the run with no record of the
\* run persisted; a failed put_item for the k-th record ends the run with the
\* k-1 records already written still persisted (nothing is rolled back) and
\* no later record written.
C7_CollaboratorFailure ==
    /\ (pc = "crashed" /\ raised = "ExtractError")
          => /\ RunItems = <<>>
             /\ put_calls = 0
    /\ (pc = "crashed" /\ raised = "PutError")
          => /\ put_calls >= 1
             /\ RunItemsArePrefix(put_calls - 1)
             /\ table = EarlierItems \o RunItems

\* C7's case: the third put_item failed after two succeeded.
C7_Witness ==
    /\ pc = "crashed"
    /\ raised = "PutError"
    /\ put_calls = 3
    /\ Len(RunItems) = 2

\* C10: a put_item failure is fatal for the rest of the batch. The failed
\* write is not retried or skipped over, no put_item follows it, and the run
\* ends without reporting a count; so the records written so far are always a
\* prefix of all_records, in its order.
C10_WriteFailureIsFatal ==
    /\ RunItemsArePrefix(written)
    /\ wi = written + 1
    /\ put_calls \in {written, written + 1}
    /\ put_calls = written + 1 <=> raised = "PutError"
    /\ raised = "PutError"
          => /\ pc = "crashed"
             /\ report = "none"
             /\ wi <= Len(all_records)

\* C10's case: the second of three writes failed; the third was never tried.
C10_Witness ==
    /\ raised = "PutError"
    /\ written = 1
    /\ put_calls = 2
    /\ Len(all_records) = 3

====
